---- MODULE Spec2Model ----
\* Verification model of three subsystems of the node:
\*   * the per-peer outbound message queues (network/peer/message_queue.go),
\*   * the request thread pools (snow/networking/router, utils/thread_pool.go),
\*   * the height index and its repairer (block_height_index, indexer).
\* Each subsystem has its own specification over the shared variable tuple;
\* the variables of the other subsystems stay at their initial values.
EXTENDS Integers, Sequences, FiniteSets, TLC

\* ------------------------------------------------------------------
\* Bounds
\* ------------------------------------------------------------------
NumMsgs == 2
NumConsumers == 2
NumClosers == 2
BufferSize == 1

PoolSize == 2
NumRequests == 3
NumPoolClosers == 1

MaxHeight == 3
MaxCrashes == 2
MaxRuns == 2
MidCommitSize == 100
MaxIndexHeight == 1
NumIDs == 2
NumCalls == 3

Msgs == 1..NumMsgs
Consumers == 1..NumConsumers
Closers == 1..NumClosers
Reqs == 1..NumRequests
PoolClosers == 1..NumPoolClosers
Heights == 0..MaxHeight


VARIABLES
    \* ---- message queues ----
    variant,        \* which MessageQueue implementation this queue is
    queue,          \* throttledMessageQueue.queue / blockingMessageQueue.queue
    closed,         \* throttledMessageQueue.closed
    closing,        \* blockingMessageQueue.closing has been closed
    pushPc,         \* position of the Push call carrying each message
    ctxDone,        \* the Push caller's context has been cancelled
    popPc,          \* position of each consumer's Pop call
    popAfterClose,  \* the consumer's current Pop call began after a Close returned
    closePc,        \* position of each Close call
    acquired,       \* per message: successful outboundMsgThrottler.Acquire calls
    released,       \* per message: outboundMsgThrottler.Release calls
    sendFailed,     \* per message: metrics.SendFailed calls
    delivered,      \* per message: times returned by Pop/PopWithoutBlocking
    popped,         \* messages in the order they were returned to consumers
    before,         \* per message: Pushes that had returned true when its Push began
    lateDelivery,   \* a consumer call begun after Close returned has returned a message
    lateNil,        \* a consumer call begun after Close returned has returned (nil, false)
    popWaiting,     \* per consumer: its Pop is parked in q.cond.Wait()
    blockedAtClose, \* consumers whose Pop was blocked on an empty queue when Close ran
    wokenWithMsg,   \* such a Pop has returned a message instead of (nil, false)
    wokenWithNil,   \* consumers whose Pop, blocked when Close ran, returned (nil, false)
    \* ---- thread pools ----
    poolVariant,    \* which ThreadPool prototype this pool is
    activeWorkers,  \* ThreadPool.activeWorkers
    signalCh,       \* number of signals buffered in ThreadPool.signalCh
    signalChClosed, \* close(t.signalCh) has run
    dataChClosed,   \* close(t.DataCh) has run
    mutex,          \* holder of the ThreadPool's embedded sync.Mutex (0: free)
    dispPc,         \* position of the receiveMessages goroutine
    dispReq,        \* the request receiveMessages handed to sendMessage
    reqPc,          \* position of each request (its caller / its handleMessage)
    incRead,        \* value of activeWorkers read by an unlocked activeWorkers++
    poolClosePc,    \* position of each CloseCh call
    executed,       \* per request: times its closure has been invoked
    failed,         \* requests whose closure returned an error
    utilized,       \* requests charged to the CPU tracker (UtilizeTime / callback)
    poolPanic,      \* a goroutine of the pool has panicked
    \* ---- height index and repairer ----
    lastAccepted,   \* height of the block BlockServer.LastAcceptedBlkID names
    db,             \* the durable store behind the height index
    blkHeightsCache,\* index.blkHeightsCache
    jobDone,        \* heightIndexer.jobDone
    batch,          \* heightIndexer.batch: operations staged since NewBatch/Reset
    commitMaxSize,  \* heightIndexer.commitMaxSize
    repPc,          \* position of RepairHeightIndex
    needRepair,     \* shouldRepair's first result
    startBlkID,     \* shouldRepair's second result
    currentBlkID,   \* doRepair's cursor
    assertLogged,   \* doRepair's log.AssertTrue has failed in this process
    resumed,        \* the current run was started from a durable checkpoint
    origin,         \* height of the block the last fresh (non-resumed) walk began at
    originEmpty,    \* no height was indexed when that fresh walk began
    runs,           \* RepairHeightIndex calls that have returned in this process
    vmKind,         \* which VM owns the index: "proposervm" or "platformvm"
    lastQuery,      \* the last GetBlockIDByHeight call: its argument and what it did
    entryModel,     \* per height: the last ID given to SetBlockIDAtHeight and not deleted
    crashes,        \* number of process restarts so far
    \* ---- height index called from several goroutines ----
    ixHeight,       \* the height the concurrent calls are made with
    ixPc,           \* position of each call of the index API
    ixID            \* per call: the ID given to Set, or the ID Get read from the store

mqVars == <<variant, queue, closed, closing, pushPc, ctxDone, popPc,
            popAfterClose, closePc, acquired, released,
            sendFailed, delivered, popped, before, lateDelivery, lateNil,
            popWaiting, blockedAtClose, wokenWithMsg, wokenWithNil>>

poolVars == <<poolVariant, activeWorkers, signalCh, signalChClosed, dataChClosed,
              mutex, dispPc, dispReq, reqPc, incRead, poolClosePc, executed,
              failed, utilized, poolPanic>>

repVars == <<lastAccepted, db, blkHeightsCache, jobDone, batch, commitMaxSize,
             repPc, needRepair, startBlkID, currentBlkID, assertLogged,
             resumed, origin, originEmpty, runs, vmKind, lastQuery, entryModel,
             crashes, ixHeight, ixPc, ixID>>

ixVars == <<ixHeight, ixPc, ixID>>

vars == <<mqVars, poolVars, repVars>>

\* ------------------------------------------------------------------
\* Message queues: helpers
\* ------------------------------------------------------------------
Inc(f, m) == [f EXCEPT ![m] = @ + 1]

RECURSIVE IncAll(_, _)
IncAll(f, q) == IF q = <<>> THEN f ELSE IncAll(Inc(f, Head(q)), Tail(q))

Accepted == {m \in Msgs : pushPc[m] = "true"}

CloseReturned == \E k \in Closers : closePc[k] = "done"

PushInProgress == \E m \in Msgs : pushPc[m] \in {"acquired", "rlocked", "select"}

\* msg := q.queue[0]
QueueFront(q) == Head(q)

\* a dequeue that leaves the message in the queue
QueueRestKeep(q) == q

\* q.queue = q.queue[1:]
QueueRest(q) == Tail(q)

\* an enqueue at the front instead of the back
QueuePrepend(q, m) == <<m>> \o q

\* q.queue = append(q.queue, msg)  /  q.queue <- msg
QueueAppend(q, m) == Append(q, m)

\* a Close that forgets the quota of the queued messages
CloseReleaseNone(rel, q) == rel

\* the loop of throttledMessageQueue.Close: Release for every queued message
CloseReleaseAll(rel, q) == IncAll(rel, q)

\* a Close that drops the queued messages without counting them
CloseFailNone(sf, q) == sf

\* the loops of both Close methods: SendFailed for every queued message
CloseFailAll(sf, q) == IncAll(sf, q)

\* a Close that leaves the dropped messages in the queue
CloseKeep(q) == q

\* q.queue = nil at the end of throttledMessageQueue.Close; the drain loop of
\* blockingMessageQueue.Close, which runs until the channel is empty
CloseClear(q) == <<>>

\* Release on the closed branch of throttledMessageQueue.Push
PushClosedRelease(rel, m) == Inc(rel, m)

\* a consumer call returns message QueueFront(queue)
Deliver(c, late) ==
    /\ delivered' = Inc(delivered, QueueFront(queue))
    /\ popped' = Append(popped, QueueFront(queue))
    /\ queue' = QueueRest(queue)
    /\ lateDelivery' = (lateDelivery \/ late)
    /\ wokenWithMsg' = (wokenWithMsg \/ c \in blockedAtClose)
    /\ blockedAtClose' = blockedAtClose \ {c}
    /\ UNCHANGED wokenWithNil

\* a consumer call returns (nil, false)
ReturnNil(c, late) ==
    /\ lateNil' = (lateNil \/ late)
    /\ wokenWithNil' = wokenWithNil \cup ({c} \cap blockedAtClose)
    /\ blockedAtClose' = blockedAtClose \ {c}
    /\ UNCHANGED wokenWithMsg

\* Pop calls blocked on an empty queue
BlockedPops == {c \in Consumers : popPc[c] = "pop" /\ Len(queue) = 0}

\* q.cond.Signal(): one parked goroutine, if there is any, is woken
CondSignal(w) ==
    IF \A c \in Consumers : ~w[c]
    THEN {w}
    ELSE {[w EXCEPT ![c] = FALSE] : c \in {x \in Consumers : w[x]}}

\* a Close that wakes nobody
CondBroadcastNone(w) == w

\* q.cond.Broadcast(): every parked goroutine is woken
CondBroadcast(w) == [c \in Consumers |-> FALSE]

\* Messages, consumers and Close callers are interchangeable, so the calls are
\* started in index order: this removes only permutations of the same run.
NextPush(m) == \A j \in Msgs : j < m => pushPc[j] # "idle"
NextConsumer(c) == \A j \in Consumers : j < c => popPc[j] = "pop"
NextCloser(k) == \A j \in Closers : j < k => closePc[j] # "idle"

\* ------------------------------------------------------------------
\* Message queues: consumer call entry (both variants)
\* ------------------------------------------------------------------
PopCall(c) ==
    /\ popPc[c] = "idle"
    /\ NextConsumer(c)
    /\ popPc' = [popPc EXCEPT ![c] = "pop"]
    /\ popAfterClose' = [popAfterClose EXCEPT ![c] = CloseReturned]
    /\ UNCHANGED <<poolVars, repVars>>
    /\ UNCHANGED <<variant, queue, closed, closing, pushPc, ctxDone, closePc,
                   acquired, released, sendFailed, delivered, popped, before,
                   lateDelivery, lateNil,
                   popWaiting, blockedAtClose, wokenWithMsg, wokenWithNil>>

\* ------------------------------------------------------------------
\* throttledMessageQueue
\* ------------------------------------------------------------------
\* a refused Push that is counted twice
PushRefusedCountTwice(sf, m) == Inc(Inc(sf, m), m)

\* Push, Acquire refused: q.metrics.SendFailed(msg)
PushRefusedCount(sf, m) == Inc(sf, m)

\* Push, first part: outboundMsgThrottler.Acquire outside the lock
TQPushAcquire(m, ok) ==
    /\ variant = "throttled"
    /\ pushPc[m] = "idle"
    /\ NextPush(m)
    /\ before' = [before EXCEPT ![m] = Accepted]
    /\ IF ok
       THEN /\ acquired' = Inc(acquired, m)
            /\ pushPc' = [pushPc EXCEPT ![m] = "acquired"]
            /\ UNCHANGED sendFailed
       ELSE /\ sendFailed' = PushRefusedCount(sendFailed, m)
            /\ pushPc' = [pushPc EXCEPT ![m] = "false"]
            /\ UNCHANGED acquired
    /\ UNCHANGED <<poolVars, repVars>>
    /\ UNCHANGED <<variant, queue, closed, closing, ctxDone, popPc,
                   popAfterClose, closePc, released, delivered,
                   popped, lateDelivery, lateNil,
                   popWaiting, blockedAtClose, wokenWithMsg, wokenWithNil>>

\* a Push that appends whatever the closed flag says
PushSeesClosedNever == FALSE

\* Push under cond.L: if q.closed
PushSeesClosed == closed

\* Push, second part: the section under cond.L
TQPushLocked(m) ==
    /\ variant = "throttled"
    /\ pushPc[m] = "acquired"
    /\ IF PushSeesClosed
       THEN /\ released' = PushClosedRelease(released, m)
            /\ sendFailed' = Inc(sendFailed, m)
            /\ pushPc' = [pushPc EXCEPT ![m] = "false"]
            /\ UNCHANGED <<queue, popWaiting>>
       ELSE /\ queue' = QueueAppend(queue, m)
            /\ popWaiting' \in CondSignal(popWaiting)
            /\ pushPc' = [pushPc EXCEPT ![m] = "true"]
            /\ UNCHANGED <<released, sendFailed>>
    /\ UNCHANGED <<poolVars, repVars>>
    /\ UNCHANGED <<variant, closed, closing, ctxDone, popPc, popAfterClose,
                   closePc, acquired, delivered, popped, before,
                   lateDelivery, lateNil,
                   blockedAtClose, wokenWithMsg, wokenWithNil>>

\* Pop parks in q.cond.Wait(): the wait loop saw closed = false and an empty queue
TQPopWait(c) ==
    /\ variant = "throttled"
    /\ popPc[c] = "pop"
    /\ ~popWaiting[c]
    /\ ~closed
    /\ Len(queue) = 0
    /\ popWaiting' = [popWaiting EXCEPT ![c] = TRUE]
    /\ UNCHANGED <<poolVars, repVars>>
    /\ UNCHANGED <<variant, queue, closed, closing, pushPc, ctxDone, popPc,
                   popAfterClose, closePc, acquired, released, sendFailed,
                   delivered, popped, before, lateDelivery, lateNil,
                   blockedAtClose, wokenWithMsg, wokenWithNil>>

\* Pop returns a message: the wait loop saw closed = false and a non-empty queue
TQPopTake(c) ==
    /\ variant = "throttled"
    /\ popPc[c] = "pop"
    /\ ~popWaiting[c]
    /\ ~closed
    /\ Len(queue) > 0
    /\ released' = Inc(released, QueueFront(queue))
    /\ Deliver(c, popAfterClose[c])
    /\ popPc' = [popPc EXCEPT ![c] = "idle"]
    /\ popAfterClose' = [popAfterClose EXCEPT ![c] = FALSE]
    /\ UNCHANGED <<poolVars, repVars>>
    /\ UNCHANGED <<variant, closed, closing, pushPc, ctxDone, closePc, acquired, sendFailed, before, lateNil,
                   popWaiting>>

\* a Pop that gives up whenever it runs, closed or not
PopSeesClosedAlways == TRUE

\* Pop, wait loop: if q.closed
PopSeesClosed == closed

\* Pop returns (nil, false): the wait loop saw closed = true
TQPopClosed(c) ==
    /\ variant = "throttled"
    /\ popPc[c] = "pop"
    /\ ~popWaiting[c]
    /\ PopSeesClosed
    /\ ReturnNil(c, popAfterClose[c])
    /\ popPc' = [popPc EXCEPT ![c] = "idle"]
    /\ popAfterClose' = [popAfterClose EXCEPT ![c] = FALSE]
    /\ UNCHANGED <<poolVars, repVars>>
    /\ UNCHANGED <<variant, queue, closed, closing, pushPc, ctxDone,
                   closePc, acquired, released, sendFailed,
                   delivered, popped, before, lateDelivery,
                   popWaiting>>

TQPopWithoutBlocking(c) ==
    /\ variant = "throttled"
    /\ popPc[c] = "idle"
    /\ IF Len(queue) = 0
       THEN /\ ReturnNil(c, CloseReturned)
            /\ UNCHANGED <<queue, released, delivered, popped, lateDelivery>>
       ELSE /\ released' = Inc(released, QueueFront(queue))
            /\ Deliver(c, CloseReturned)
            /\ UNCHANGED lateNil
    /\ UNCHANGED <<poolVars, repVars>>
    /\ UNCHANGED <<variant, closed, closing, pushPc, ctxDone, popPc,
                   popAfterClose, closePc, acquired, sendFailed, before,
                   popWaiting>>

TQClose(k) ==
    /\ variant = "throttled"
    /\ closePc[k] = "idle"
    /\ NextCloser(k)
    /\ closed' = TRUE
    /\ released' = CloseReleaseAll(released, queue)
    /\ sendFailed' = CloseFailAll(sendFailed, queue)
    /\ queue' = CloseClear(queue)
    /\ popWaiting' = CondBroadcast(popWaiting)
    /\ blockedAtClose' = blockedAtClose \cup BlockedPops
    /\ closePc' = [closePc EXCEPT ![k] = "done"]
    /\ UNCHANGED <<poolVars, repVars>>
    /\ UNCHANGED <<variant, closing, pushPc, ctxDone, popPc, popAfterClose,
                   acquired, delivered, popped, before, lateDelivery, lateNil,
                   wokenWithMsg, wokenWithNil>>

\* ------------------------------------------------------------------
\* blockingMessageQueue
\* ------------------------------------------------------------------
\* a Close call is inside closeOnce.Do: it waits for or holds closingLock.Lock
CloseLockWanted == \E k \in Closers : closePc[k] = "once"

\* Push calls that hold closingLock.RLock
RLockHolders == {m \in Msgs : pushPc[m] \in {"rlocked", "select"}}

\* q.closingLock.RLock(); a pending Lock keeps new readers out
BQPushRLock(m) ==
    /\ variant = "blocking"
    /\ pushPc[m] = "idle"
    /\ NextPush(m)
    /\ ~CloseLockWanted
    /\ before' = [before EXCEPT ![m] = Accepted]
    /\ pushPc' = [pushPc EXCEPT ![m] = "rlocked"]
    /\ UNCHANGED <<poolVars, repVars>>
    /\ UNCHANGED <<variant, queue, closed, closing, ctxDone, popPc,
                   popAfterClose, closePc, acquired, released,
                   sendFailed, delivered, popped, lateDelivery, lateNil,
                   popWaiting, blockedAtClose, wokenWithMsg, wokenWithNil>>

\* the first select of Push: closing already triggered, or fall through
BQPushCheckClosing(m) ==
    /\ variant = "blocking"
    /\ pushPc[m] = "rlocked"
    /\ IF closing
       THEN /\ sendFailed' = Inc(sendFailed, m)
            /\ pushPc' = [pushPc EXCEPT ![m] = "false"]
       ELSE /\ pushPc' = [pushPc EXCEPT ![m] = "select"]
            /\ UNCHANGED sendFailed
    /\ UNCHANGED <<poolVars, repVars>>
    /\ UNCHANGED <<variant, queue, closed, closing, ctxDone, popPc,
                   popAfterClose, closePc, acquired, released,
                   delivered, popped, before, lateDelivery, lateNil,
                   popWaiting, blockedAtClose, wokenWithMsg, wokenWithNil>>

\* the second select of Push, case q.queue <- msg
BQPushSend(m) ==
    /\ variant = "blocking"
    /\ pushPc[m] = "select"
    /\ Len(queue) < BufferSize
    /\ queue' = QueueAppend(queue, m)
    /\ pushPc' = [pushPc EXCEPT ![m] = "true"]
    /\ UNCHANGED <<poolVars, repVars>>
    /\ UNCHANGED <<variant, closed, closing, ctxDone, popPc, popAfterClose,
                   closePc, acquired, released, sendFailed,
                   delivered, popped, before, lateDelivery, lateNil,
                   popWaiting, blockedAtClose, wokenWithMsg, wokenWithNil>>

\* a cancelled Push that is dropped without being counted
PushCancelledCountNone(sf, m) == sf

\* Push, case <-ctx.Done(): q.metrics.SendFailed(msg)
PushCancelledCount(sf, m) == Inc(sf, m)

\* the second select of Push, case <-ctx.Done()
BQPushCancelled(m) ==
    /\ variant = "blocking"
    /\ pushPc[m] = "select"
    /\ ctxDone[m]
    /\ sendFailed' = PushCancelledCount(sendFailed, m)
    /\ pushPc' = [pushPc EXCEPT ![m] = "false"]
    /\ UNCHANGED <<poolVars, repVars>>
    /\ UNCHANGED <<variant, queue, closed, closing, ctxDone, popPc,
                   popAfterClose, closePc, acquired, released,
                   delivered, popped, before, lateDelivery, lateNil,
                   popWaiting, blockedAtClose, wokenWithMsg, wokenWithNil>>

\* a Push whose second select does not watch q.closing
SelectSeesClosingNever == FALSE

\* Push, second select: case <-q.closing is ready once closing is closed
SelectSeesClosing == closing

\* the second select of Push, case <-q.closing
BQPushClosing(m) ==
    /\ variant = "blocking"
    /\ pushPc[m] = "select"
    /\ SelectSeesClosing
    /\ sendFailed' = Inc(sendFailed, m)
    /\ pushPc' = [pushPc EXCEPT ![m] = "false"]
    /\ UNCHANGED <<poolVars, repVars>>
    /\ UNCHANGED <<variant, queue, closed, closing, ctxDone, popPc,
                   popAfterClose, closePc, acquired, released,
                   delivered, popped, before, lateDelivery, lateNil,
                   popWaiting, blockedAtClose, wokenWithMsg, wokenWithNil>>

\* the caller of a Push cancels the context it passed
CtxCancel(m) ==
    /\ variant = "blocking"
    /\ pushPc[m] \in {"idle", "rlocked", "select"}
    /\ NextPush(m)
    /\ ~ctxDone[m]
    /\ ctxDone' = [ctxDone EXCEPT ![m] = TRUE]
    /\ UNCHANGED <<poolVars, repVars>>
    /\ UNCHANGED <<variant, queue, closed, closing, pushPc, popPc,
                   popAfterClose, closePc, acquired, released,
                   sendFailed, delivered, popped, before, lateDelivery, lateNil,
                   popWaiting, blockedAtClose, wokenWithMsg, wokenWithNil>>

\* Pop, case msg := <-q.queue
BQPopRecv(c) ==
    /\ variant = "blocking"
    /\ popPc[c] = "pop"
    /\ Len(queue) > 0
    /\ Deliver(c, popAfterClose[c])
    /\ popPc' = [popPc EXCEPT ![c] = "idle"]
    /\ popAfterClose' = [popAfterClose EXCEPT ![c] = FALSE]
    /\ UNCHANGED <<poolVars, repVars>>
    /\ UNCHANGED <<variant, closed, closing, pushPc, ctxDone, closePc, acquired, released, sendFailed, before, lateNil,
                   popWaiting>>

\* Pop, case <-q.closing
BQPopClosing(c) ==
    /\ variant = "blocking"
    /\ popPc[c] = "pop"
    /\ closing
    /\ ReturnNil(c, popAfterClose[c])
    /\ popPc' = [popPc EXCEPT ![c] = "idle"]
    /\ popAfterClose' = [popAfterClose EXCEPT ![c] = FALSE]
    /\ UNCHANGED <<poolVars, repVars>>
    /\ UNCHANGED <<variant, queue, closed, closing, pushPc, ctxDone,
                   closePc, acquired, released, sendFailed,
                   delivered, popped, before, lateDelivery,
                   popWaiting>>

BQPopWithoutBlocking(c) ==
    /\ variant = "blocking"
    /\ popPc[c] = "idle"
    /\ IF Len(queue) = 0
       THEN /\ ReturnNil(c, CloseReturned)
            /\ UNCHANGED <<queue, delivered, popped, lateDelivery>>
       ELSE /\ Deliver(c, CloseReturned)
            /\ UNCHANGED lateNil
    /\ UNCHANGED <<poolVars, repVars>>
    /\ UNCHANGED <<variant, closed, closing, pushPc, ctxDone, popPc,
                   popAfterClose, closePc, acquired, released, sendFailed,
                   before,
                   popWaiting>>

\* Close, first caller: closeOnce.Do runs the function, which closes q.closing
BQCloseOnce(k) ==
    /\ variant = "blocking"
    /\ closePc[k] = "idle"
    /\ NextCloser(k)
    /\ \A j \in Closers : closePc[j] = "idle"
    /\ closing' = TRUE
    /\ blockedAtClose' = blockedAtClose \cup BlockedPops
    /\ closePc' = [closePc EXCEPT ![k] = "once"]
    /\ UNCHANGED <<poolVars, repVars>>
    /\ UNCHANGED <<variant, queue, closed, pushPc, ctxDone, popPc,
                   popAfterClose, acquired, released, sendFailed,
                   delivered, popped, before, lateDelivery, lateNil,
                   popWaiting, wokenWithMsg, wokenWithNil>>

\* a Close that drains without taking the write side of closingLock
ClosingLockFree == TRUE

\* Close: q.closingLock.Lock() is granted once no Push holds the read side
ClosingLockGranted == RLockHolders = {}

\* Close, first caller: closingLock.Lock() and the drain loop
BQCloseDrain(k) ==
    /\ variant = "blocking"
    /\ closePc[k] = "once"
    /\ ClosingLockGranted
    /\ sendFailed' = CloseFailAll(sendFailed, queue)
    /\ queue' = CloseClear(queue)
    /\ closePc' = [closePc EXCEPT ![k] = "done"]
    /\ UNCHANGED <<poolVars, repVars>>
    /\ UNCHANGED <<variant, closed, closing, pushPc, ctxDone, popPc,
                   popAfterClose, acquired, released, delivered,
                   popped, before, lateDelivery, lateNil,
                   popWaiting, blockedAtClose, wokenWithMsg, wokenWithNil>>

\* Close, later caller: closeOnce.Do returns once the first call has finished
BQCloseAgain(k) ==
    /\ variant = "blocking"
    /\ closePc[k] = "idle"
    /\ NextCloser(k)
    /\ \E j \in Closers : closePc[j] = "done"
    /\ closePc' = [closePc EXCEPT ![k] = "done"]
    /\ UNCHANGED <<poolVars, repVars>>
    /\ UNCHANGED <<variant, queue, closed, closing, pushPc, ctxDone, popPc,
                   popAfterClose, acquired, released, sendFailed,
                   delivered, popped, before, lateDelivery, lateNil,
                   popWaiting, blockedAtClose, wokenWithMsg, wokenWithNil>>

\* ------------------------------------------------------------------
\* Message queues: specification
\* ------------------------------------------------------------------
InitMQ ==
    /\ variant \in {"throttled", "blocking"}
    /\ queue = <<>>
    /\ closed = FALSE
    /\ closing = FALSE
    /\ pushPc = [m \in Msgs |-> "idle"]
    /\ ctxDone = [m \in Msgs |-> FALSE]
    /\ popPc = [c \in Consumers |-> "idle"]
    /\ popAfterClose = [c \in Consumers |-> FALSE]
    /\ closePc = [k \in Closers |-> "idle"]
    /\ acquired = [m \in Msgs |-> 0]
    /\ released = [m \in Msgs |-> 0]
    /\ sendFailed = [m \in Msgs |-> 0]
    /\ delivered = [m \in Msgs |-> 0]
    /\ popped = <<>>
    /\ before = [m \in Msgs |-> {}]
    /\ lateDelivery = FALSE
    /\ lateNil = FALSE
    /\ popWaiting = [c \in Consumers |-> FALSE]
    /\ blockedAtClose = {}
    /\ wokenWithMsg = FALSE
    /\ wokenWithNil = {}

NextMQ ==
    \/ \E c \in Consumers : PopCall(c)
    \/ \E m \in Msgs, ok \in BOOLEAN : TQPushAcquire(m, ok)
    \/ \E m \in Msgs : TQPushLocked(m)
    \/ \E c \in Consumers : TQPopWait(c)
    \/ \E c \in Consumers : TQPopTake(c)
    \/ \E c \in Consumers : TQPopClosed(c)
    \/ \E c \in Consumers : TQPopWithoutBlocking(c)
    \/ \E k \in Closers : TQClose(k)
    \/ \E m \in Msgs : BQPushRLock(m)
    \/ \E m \in Msgs : BQPushCheckClosing(m)
    \/ \E m \in Msgs : BQPushSend(m)
    \/ \E m \in Msgs : BQPushCancelled(m)
    \/ \E m \in Msgs : BQPushClosing(m)
    \/ \E m \in Msgs : CtxCancel(m)
    \/ \E c \in Consumers : BQPopRecv(c)
    \/ \E c \in Consumers : BQPopClosing(c)
    \/ \E c \in Consumers : BQPopWithoutBlocking(c)
    \/ \E k \in Closers : BQCloseOnce(k)
    \/ \E k \in Closers : BQCloseDrain(k)
    \/ \E k \in Closers : BQCloseAgain(k)

\* ------------------------------------------------------------------
\* Thread pools
\*   "dispatch": the pool whose receiveMessages goroutine hands each request
\*               to sendMessage and runs handleMessage in a new goroutine;
\*   "sync":     the pool whose SendMessage runs handleMessage in the caller
\*               and waits in waitForWorker.
\* ------------------------------------------------------------------
Min(a, b) == IF a < b THEN a ELSE b
Max(a, b) == IF a > b THEN a ELSE b

\* freeWorkerExists
freeWorkerExists == PoolSize > activeWorkers

\* requests whose closure is running
Running == {r \in Reqs : reqPc[r] = "run"}

\* requests whose closure has returned
ClosureReturned == {r \in Reqs : reqPc[r] \in {"release", "decrement", "done"}}

\* Requests and CloseCh callers are interchangeable: started in index order.
NextReq(r) == \A j \in Reqs : j < r => reqPc[j] # "new"
NextPoolCloser(k) == \A j \in PoolClosers : j < k => poolClosePc[j] # "idle"

\* a caller sends a request on DataCh; receiveMessages takes it in its select
Submit(r) ==
    /\ poolVariant = "dispatch"
    /\ ~poolPanic
    /\ reqPc[r] = "new"
    /\ NextReq(r)
    /\ dispPc = "select"
    /\ ~dataChClosed
    /\ reqPc' = [reqPc EXCEPT ![r] = "handed"]
    /\ dispReq' = r
    /\ dispPc' = "sendMessage"
    /\ UNCHANGED <<mqVars, repVars>>
    /\ UNCHANGED <<poolVariant, activeWorkers, signalCh, signalChClosed,
                   dataChClosed, mutex, incRead, poolClosePc, executed, failed,
                   utilized, poolPanic>>

\* sendMessage, first test of freeWorkerExists
sendMessage ==
    /\ poolVariant = "dispatch"
    /\ ~poolPanic
    /\ dispPc = "sendMessage"
    /\ IF freeWorkerExists
       THEN /\ reqPc' = [reqPc EXCEPT ![dispReq] = "increment"]
            /\ dispPc' = "select"
            /\ dispReq' = 0
       ELSE /\ dispPc' = "wait"
            /\ UNCHANGED <<reqPc, dispReq>>
    /\ UNCHANGED <<mqVars, repVars>>
    /\ UNCHANGED <<poolVariant, activeWorkers, signalCh, signalChClosed,
                   dataChClosed, mutex, incRead, poolClosePc, executed, failed,
                   utilized, poolPanic>>

\* SendMessage of the sync pool: test of freeWorkerExists in the caller
SendMessage(r) ==
    /\ poolVariant = "sync"
    /\ ~poolPanic
    /\ reqPc[r] = "new"
    /\ NextReq(r)
    /\ reqPc' = [reqPc EXCEPT ![r] = IF freeWorkerExists THEN "increment" ELSE "wait"]
    /\ UNCHANGED <<mqVars, repVars>>
    /\ UNCHANGED <<poolVariant, activeWorkers, signalCh, signalChClosed,
                   dataChClosed, mutex, dispPc, dispReq, incRead, poolClosePc,
                   executed, failed, utilized, poolPanic>>

\* <-t.signalCh: a buffered signal, or the zero value of the closed channel.
\* dispatch: sendMessage then tests freeWorkerExists again and drops the
\* request when the test fails; sync: waitForWorker runs handleMessage.
waitForSignal(r) ==
    /\ ~poolPanic
    /\ signalCh > 0 \/ signalChClosed
    /\ IF poolVariant = "dispatch"
       THEN /\ dispPc = "wait"
            /\ dispReq = r
            /\ reqPc' = [reqPc EXCEPT ![r] = IF freeWorkerExists THEN "increment"
                                                                 ELSE "dropped"]
            /\ dispPc' = "select"
            /\ dispReq' = 0
       ELSE /\ reqPc[r] = "wait"
            /\ reqPc' = [reqPc EXCEPT ![r] = "increment"]
            /\ UNCHANGED <<dispPc, dispReq>>
    /\ signalCh' = Max(signalCh - 1, 0)
    /\ UNCHANGED <<mqVars, repVars>>
    /\ UNCHANGED <<poolVariant, activeWorkers, signalChClosed, dataChClosed,
                   mutex, incRead, poolClosePc, executed, failed, utilized,
                   poolPanic>>

\* incrementWorkers, entry: t.Lock() in the dispatch pool (the sync pool's
\* incrementWorkers takes no lock) and the read of t.activeWorkers++
incrementWorkersRead(r) ==
    /\ ~poolPanic
    /\ reqPc[r] = "increment"
    /\ IF poolVariant = "dispatch"
       THEN mutex = 0 /\ mutex' = r
       ELSE UNCHANGED mutex
    /\ incRead' = [incRead EXCEPT ![r] = activeWorkers]
    /\ reqPc' = [reqPc EXCEPT ![r] = "incremented"]
    /\ UNCHANGED <<mqVars, repVars>>
    /\ UNCHANGED <<poolVariant, activeWorkers, signalCh, signalChClosed,
                   dataChClosed, dispPc, dispReq, poolClosePc, executed, failed,
                   utilized, poolPanic>>

\* incrementWorkers, rest: the write of t.activeWorkers++, the cap at size,
\* Unlock in the dispatch pool; handleMessage then invokes the closure
incrementWorkersWrite(r) ==
    /\ ~poolPanic
    /\ reqPc[r] = "incremented"
    /\ activeWorkers' = Min(incRead[r] + 1, PoolSize)
    /\ mutex' = IF poolVariant = "dispatch" THEN 0 ELSE mutex
    /\ incRead' = [incRead EXCEPT ![r] = 0]
    /\ executed' = [executed EXCEPT ![r] = @ + 1]
    /\ reqPc' = [reqPc EXCEPT ![r] = "run"]
    /\ UNCHANGED <<mqVars, repVars>>
    /\ UNCHANGED <<poolVariant, signalCh, signalChClosed, dataChClosed, dispPc,
                   dispReq, poolClosePc, failed, utilized, poolPanic>>

\* the closure returns, with or without an error; without one the CPU
\* tracker is charged (UtilizeTime / the time callback)
closureReturns(r, err) ==
    /\ ~poolPanic
    /\ reqPc[r] = "run"
    /\ IF err
       THEN failed' = failed \cup {r} /\ UNCHANGED utilized
       ELSE utilized' = utilized \cup {r} /\ UNCHANGED failed
    /\ reqPc' = [reqPc EXCEPT ![r] = "release"]
    /\ UNCHANGED <<mqVars, repVars>>
    /\ UNCHANGED <<poolVariant, activeWorkers, signalCh, signalChClosed,
                   dataChClosed, mutex, dispPc, dispReq, incRead, poolClosePc,
                   executed, poolPanic>>

\* releaseWorker, entry: t.Lock()
releaseWorker(r) ==
    /\ ~poolPanic
    /\ reqPc[r] = "release"
    /\ mutex = 0
    /\ mutex' = r
    /\ reqPc' = [reqPc EXCEPT ![r] = "decrement"]
    /\ UNCHANGED <<mqVars, repVars>>
    /\ UNCHANGED <<poolVariant, activeWorkers, signalCh, signalChClosed,
                   dataChClosed, dispPc, dispReq, incRead, poolClosePc, executed,
                   failed, utilized, poolPanic>>

\* releaseWorker, rest: decrementWorkers, the signal unless the buffer is
\* full, Unlock. decrementWorkers of the dispatch pool begins with t.Lock()
\* on the mutex releaseWorker already holds; the sync pool's takes no lock.
\* A send on the closed signalCh panics.
decrementWorkers(r) ==
    /\ ~poolPanic
    /\ reqPc[r] = "decrement"
    /\ poolVariant = "dispatch" => mutex = 0
    /\ activeWorkers' = Max(activeWorkers - 1, 0)
    /\ IF signalCh # PoolSize
       THEN IF signalChClosed
            THEN poolPanic' = TRUE /\ UNCHANGED signalCh
            ELSE signalCh' = signalCh + 1 /\ UNCHANGED poolPanic
       ELSE UNCHANGED <<signalCh, poolPanic>>
    /\ mutex' = 0
    /\ reqPc' = [reqPc EXCEPT ![r] = "done"]
    /\ UNCHANGED <<mqVars, repVars>>
    /\ UNCHANGED <<poolVariant, signalChClosed, dataChClosed, dispPc, dispReq,
                   incRead, poolClosePc, executed, failed, utilized>>

\* CloseCh: the send on the unbuffered closeCh begins
CloseCh(k) ==
    /\ ~poolPanic
    /\ poolClosePc[k] = "idle"
    /\ NextPoolCloser(k)
    /\ poolClosePc' = [poolClosePc EXCEPT ![k] = "sending"]
    /\ UNCHANGED <<mqVars, repVars>>
    /\ UNCHANGED <<poolVariant, activeWorkers, signalCh, signalChClosed,
                   dataChClosed, mutex, dispPc, dispReq, reqPc, incRead,
                   executed, failed, utilized, poolPanic>>

\* receiveMessages, case <-t.closeCh: close(t.DataCh); close(t.signalCh).
\* Closing a channel a second time panics.
receiveClose(k) ==
    /\ poolVariant = "dispatch"
    /\ ~poolPanic
    /\ dispPc = "select"
    /\ poolClosePc[k] = "sending"
    /\ poolClosePc' = [poolClosePc EXCEPT ![k] = "done"]
    /\ poolPanic' = (dataChClosed \/ signalChClosed)
    /\ dataChClosed' = TRUE
    /\ signalChClosed' = (signalChClosed \/ ~dataChClosed)
    /\ UNCHANGED <<mqVars, repVars>>
    /\ UNCHANGED <<poolVariant, activeWorkers, signalCh, mutex, dispPc, dispReq,
                   reqPc, incRead, executed, failed, utilized>>

\* receiveMessages, case request, ok := <-t.DataCh with ok = false: return
receiveClosed ==
    /\ poolVariant = "dispatch"
    /\ ~poolPanic
    /\ dispPc = "select"
    /\ dataChClosed
    /\ dispPc' = "exited"
    /\ UNCHANGED <<mqVars, repVars>>
    /\ UNCHANGED <<poolVariant, activeWorkers, signalCh, signalChClosed,
                   dataChClosed, mutex, dispReq, reqPc, incRead, poolClosePc,
                   executed, failed, utilized, poolPanic>>

\* waitForWorker, case <-t.closeCh: close(t.signalCh), then select again
waitForWorkerClose(r, k) ==
    /\ poolVariant = "sync"
    /\ ~poolPanic
    /\ reqPc[r] = "wait"
    /\ poolClosePc[k] = "sending"
    /\ poolClosePc' = [poolClosePc EXCEPT ![k] = "done"]
    /\ poolPanic' = signalChClosed
    /\ signalChClosed' = TRUE
    /\ UNCHANGED <<mqVars, repVars>>
    /\ UNCHANGED <<poolVariant, activeWorkers, signalCh, dataChClosed, mutex,
                   dispPc, dispReq, reqPc, incRead, executed, failed, utilized>>

PoolStart(v) ==
    /\ poolVariant = v
    /\ activeWorkers = 0
    /\ signalCh = 0
    /\ signalChClosed = FALSE
    /\ dataChClosed = FALSE
    /\ mutex = 0
    /\ dispPc = "select"
    /\ dispReq = 0
    /\ reqPc = [r \in Reqs |-> "new"]
    /\ incRead = [r \in Reqs |-> 0]
    /\ poolClosePc = [k \in PoolClosers |-> "idle"]
    /\ executed = [r \in Reqs |-> 0]
    /\ failed = {}
    /\ utilized = {}
    /\ poolPanic = FALSE

InitPool == \E v \in {"dispatch", "sync"} : PoolStart(v)

\* scheduled steps of the goroutine that carries request r
WorkerStep(r) ==
    \/ incrementWorkersRead(r)
    \/ incrementWorkersWrite(r)
    \/ \E err \in BOOLEAN : closureReturns(r, err)
    \/ releaseWorker(r)
    \/ decrementWorkers(r)
    \/ waitForSignal(r)
    \/ \E k \in PoolClosers : waitForWorkerClose(r, k)

\* scheduled steps of the receiveMessages goroutine
DispatcherStep ==
    \/ sendMessage
    \/ \E k \in PoolClosers : receiveClose(k)
    \/ receiveClosed

NextPool ==
    \/ \E r \in Reqs : Submit(r)
    \/ \E r \in Reqs : SendMessage(r)
    \/ \E k \in PoolClosers : CloseCh(k)
    \/ \E r \in Reqs : WorkerStep(r)
    \/ DispatcherStep

\* ------------------------------------------------------------------
\* Height index and repairer
\* ------------------------------------------------------------------
\* const defaultCommitSizeCap = 1 * units.MiB
defaultCommitSizeCap == 1048576

\* len(heightPrefix), wrappers.LongLen, len("checkpoint"), len(ids.ID)
heightPrefixLen == 9
LongLen == 8
checkpointKeyLen == 10
IDLen == 32

\* values heightIndexer.commitMaxSize takes: the default, and smaller values
\* set by the package's tests (0 commits after every block)
CommitSizes == {0, MidCommitSize, defaultCommitSizeCap}

\* ids.Empty, and the ID of the accepted block at height h
EmptyID == 0
BlockIDAt(h) == h + 1

\* snowman.Block.Height() and Parent(); the parent of genesis is ids.Empty
Height(id) == id - 1
Parent(id) == IF id > 0 THEN id - 1 ELSE EmptyID

\* BlockServer.GetBlk finds exactly the accepted blocks
GetBlkFound(id) == id \in 1..BlockIDAt(lastAccepted)

\* database.GetUInt64(db, GetForkKey()) returned ErrNotFound
NoFork == -1

\* fork height before any post-fork block was indexed
ForkUnset == MaxHeight + 1

\* operations a database.Batch records
PutEntry(h, id) == [op |-> "put", key |-> "entry", h |-> h, val |-> id]
PutCheckpoint(id) == [op |-> "put", key |-> "checkpoint", h |-> 0, val |-> id]
DeleteCheckpointOp == [op |-> "delete", key |-> "checkpoint", h |-> 0, val |-> EmptyID]

\* one recorded operation applied to the store
ApplyOp(d, o) ==
    IF o.key = "checkpoint"
    THEN [d EXCEPT !.checkpoint = IF o.op = "put" THEN o.val ELSE EmptyID]
    ELSE [d EXCEPT !.entry[o.h] = IF o.op = "put" THEN o.val ELSE EmptyID]

\* Batch.Write: the recorded operations reach the store in order, atomically;
\* the batch keeps them until Reset
RECURSIVE BatchWrite(_, _)
BatchWrite(d, b) == IF b = <<>> THEN d ELSE BatchWrite(ApplyOp(d, Head(b)), Tail(b))

\* Batch.Size: bytes of the keys and values recorded
OpSize(o) ==
    (IF o.key = "checkpoint" THEN checkpointKeyLen ELSE heightPrefixLen + LongLen)
        + (IF o.op = "put" THEN IDLen ELSE 0)

RECURSIVE BatchSize(_)
BatchSize(b) == IF b = <<>> THEN 0 ELSE OpSize(Head(b)) + BatchSize(Tail(b))

\* Batch.Reset
BatchReset(b) == <<>>

\* index.GetBlockIDAtHeight: the cache first, then the store (EmptyID: NotFound)
GetBlockIDAtHeight(h) ==
    IF blkHeightsCache[h] # EmptyID THEN blkHeightsCache[h] ELSE db.entry[h]

\* ... and its side effect: a value found in the store is cached
CacheAfterGet(h) ==
    IF GetBlockIDAtHeight(h) # EmptyID
    THEN [blkHeightsCache EXCEPT ![h] = GetBlockIDAtHeight(h)]
    ELSE blkHeightsCache

\* index.GetCheckpoint (EmptyID: NotFound)
GetCheckpoint == db.checkpoint

\* a probe that marks the checkpoint even when the index is complete
ProbeBatchAlways(b, found, latest) == Append(b, PutCheckpoint(latest))

\* a probe that never marks the checkpoint
ProbeBatchNone(b, found, latest) == b

\* shouldRepair, last switch: nothing is staged when the last accepted block
\* is indexed, else checkpoint = latestBlkID is staged
ProbeBatch(b, found, latest) ==
    IF found THEN b ELSE Append(b, PutCheckpoint(latest))

\* a checkpoint two blocks below the block just indexed
doCheckpointSkip(b, id) ==
    IF GetBlkFound(Parent(Parent(id)))
    THEN Append(b, PutCheckpoint(Parent(Parent(id))))
    ELSE b

\* doCheckpoint: checkpoint is the current block's parent, if it exists
doCheckpoint(b, id) ==
    IF GetBlkFound(Parent(id))
    THEN Append(b, PutCheckpoint(Parent(id)))
    ELSE b

\* a walker that files the parent's ID under the block's height
RebuildEntryParent(id) == PutEntry(Height(id), Parent(id))

\* doRepair: hi.batch.Put(GetEntryKey(currentAcceptedBlk.Height()), currentBlkID[:])
RebuildEntry(id) == PutEntry(Height(id), id)

\* a walk that steps over every other block
WalkSkip(id) == Parent(Parent(id))

\* doRepair: currentBlkID = currentAcceptedBlk.Parent()
WalkNext(id) == Parent(id)

\* RepairHeightIndex is called: at start-up, or again on the same indexer
RepairHeightIndex ==
    /\ repPc \in {"idle", "returned", "failed"}
    /\ runs < MaxRuns
    /\ repPc' = "shouldRepair"
    /\ UNCHANGED <<mqVars, poolVars, ixVars>>
    /\ UNCHANGED <<lastAccepted, db, blkHeightsCache, jobDone, batch,
                   commitMaxSize, needRepair, startBlkID, currentBlkID,
                   assertLogged, resumed, origin, originEmpty, runs, crashes,
                   vmKind, lastQuery, entryModel>>

\* a probe that restarts the walk at the last accepted block
ResumeAtLast(checkpointID) == BlockIDAt(lastAccepted)

\* shouldRepair, case nil: return true, checkpointID, nil
ResumeAt(checkpointID) == checkpointID

\* shouldRepair, first switch: a checkpoint found means repair is resumed there
shouldRepair ==
    /\ repPc = "shouldRepair"
    /\ IF GetCheckpoint # EmptyID
       THEN /\ needRepair' = TRUE
            /\ startBlkID' = ResumeAt(GetCheckpoint)
            /\ resumed' = TRUE
            /\ repPc' = "write"
       ELSE /\ repPc' = "probe"
            /\ UNCHANGED <<needRepair, startBlkID, resumed>>
    /\ UNCHANGED <<mqVars, poolVars, ixVars>>
    /\ UNCHANGED <<lastAccepted, db, blkHeightsCache, jobDone, batch,
                   commitMaxSize, currentBlkID, assertLogged, origin,
                   originEmpty, runs, crashes,
                   vmKind, lastQuery, entryModel>>

\* shouldRepair, rest: the index is complete iff the last accepted block is
\* indexed; if it is not, the checkpoint is staged and the walk starts there
shouldRepairProbe ==
    /\ repPc = "probe"
    /\ LET latestBlkID == BlockIDAt(lastAccepted)
           found == GetBlockIDAtHeight(Height(latestBlkID)) # EmptyID
       IN /\ needRepair' = ~found
          /\ startBlkID' = IF found THEN EmptyID ELSE latestBlkID
          /\ jobDone' = (jobDone \/ found)
          /\ batch' = ProbeBatch(batch, found, latestBlkID)
          /\ blkHeightsCache' = CacheAfterGet(Height(latestBlkID))
          /\ resumed' = FALSE
          /\ origin' = IF found THEN origin ELSE lastAccepted
          /\ originEmpty' = IF found THEN originEmpty
                            ELSE \A h \in Heights : db.entry[h] = EmptyID
    /\ repPc' = "write"
    /\ UNCHANGED <<mqVars, poolVars, ixVars>>
    /\ UNCHANGED <<lastAccepted, db, commitMaxSize, currentBlkID, assertLogged,
                   runs, crashes,
                   vmKind, lastQuery, entryModel>>

\* RepairHeightIndex after shouldRepair: hi.batch.Write(), then return when no
\* repair is needed, else doRepair(startBlkID)
RepairWrite ==
    /\ repPc = "write"
    /\ db' = BatchWrite(db, batch)
    /\ IF needRepair
       THEN /\ currentBlkID' = startBlkID
            /\ repPc' = "doRepair"
            /\ UNCHANGED runs
       ELSE /\ repPc' = "returned"
            /\ runs' = runs + 1
            /\ UNCHANGED currentBlkID
    /\ UNCHANGED <<mqVars, poolVars, ixVars>>
    /\ UNCHANGED <<lastAccepted, blkHeightsCache, jobDone, batch, commitMaxSize,
                   needRepair, startBlkID, assertLogged, resumed, origin,
                   originEmpty, crashes,
                   vmKind, lastQuery, entryModel>>

\* doRepair, one iteration of the loop
doRepair ==
    /\ repPc = "doRepair"
    /\ IF ~GetBlkFound(currentBlkID)
       THEN \* visited all blocks: stage the deletion of the checkpoint
            /\ batch' = Append(batch, DeleteCheckpointOp)
            /\ jobDone' = TRUE
            /\ repPc' = "finalWrite"
            /\ UNCHANGED <<db, blkHeightsCache, currentBlkID, assertLogged>>
       ELSE IF GetBlockIDAtHeight(Height(currentBlkID)) # EmptyID
       THEN \* unexpected entry: AssertTrue logs, the cursor does not move
            /\ assertLogged' = TRUE
            /\ blkHeightsCache' = CacheAfterGet(Height(currentBlkID))
            /\ UNCHANGED <<db, batch, jobDone, currentBlkID, repPc>>
       ELSE LET staged == Append(batch, RebuildEntry(currentBlkID))
            IN /\ IF BatchSize(staged) > commitMaxSize
                  THEN /\ db' = BatchWrite(db, doCheckpoint(staged, currentBlkID))
                       /\ batch' = BatchReset(staged)
                  ELSE /\ batch' = staged
                       /\ UNCHANGED db
               /\ currentBlkID' = WalkNext(currentBlkID)
               /\ UNCHANGED <<blkHeightsCache, jobDone, assertLogged, repPc>>
    /\ UNCHANGED <<mqVars, poolVars, ixVars>>
    /\ UNCHANGED <<lastAccepted, commitMaxSize, needRepair, startBlkID, resumed,
                   origin, originEmpty, runs, crashes,
                   vmKind, lastQuery, entryModel>>

\* RepairHeightIndex after doRepair: hi.batch.Write() and return nil
RepairFinalWrite ==
    /\ repPc = "finalWrite"
    /\ db' = BatchWrite(db, batch)
    /\ repPc' = "returned"
    /\ runs' = runs + 1
    /\ UNCHANGED <<mqVars, poolVars, ixVars>>
    /\ UNCHANGED <<lastAccepted, blkHeightsCache, jobDone, batch, commitMaxSize,
                   needRepair, startBlkID, currentBlkID, assertLogged, resumed,
                   origin, originEmpty, crashes,
                   vmKind, lastQuery, entryModel>>

\* heightIndexer.IsRepaired
IsRepaired == jobDone

\* The VM accepts the next block and calls updateHeightIndex.
\* proposervm: the entry is stored (storeHeightEntry) when a checkpoint exists
\* and the block is not the checkpoint, or when no checkpoint exists and the
\* index is repaired; storeHeightEntry fails without writing when no fork
\* height is set. platformvm: the entry is stored unconditionally.
updateHeightIndex ==
    /\ lastAccepted < MaxHeight
    /\ lastAccepted' = lastAccepted + 1
    /\ LET height == lastAccepted + 1
           blkID == BlockIDAt(height)
           store == IF GetCheckpoint # EmptyID THEN blkID # GetCheckpoint
                                               ELSE IsRepaired
       IN IF vmKind = "platformvm"
          THEN /\ db' = [db EXCEPT !.entry[height] = blkID]
               /\ blkHeightsCache' = [blkHeightsCache EXCEPT ![height] = blkID]
          ELSE IF store /\ db.fork # NoFork
          THEN /\ db' = [db EXCEPT !.fork = IF @ > height THEN height ELSE @,
                                   !.entry[height] = blkID]
               /\ blkHeightsCache' = [blkHeightsCache EXCEPT ![height] = blkID]
          ELSE UNCHANGED <<db, blkHeightsCache>>
    /\ UNCHANGED <<mqVars, poolVars, ixVars>>
    /\ UNCHANGED <<jobDone, batch, commitMaxSize, repPc, needRepair, startBlkID,
                   currentBlkID, assertLogged, resumed, origin, originEmpty,
                   runs, crashes,
                   vmKind, lastQuery, entryModel>>

\* no GetBlockIDByHeight call was made in this process yet
NoQuery == [height |-> 0, repaired |-> FALSE, id |-> EmptyID, err |-> "none",
            consulted |-> FALSE]

\* a GetBlockIDByHeight that trusts the index before it is repaired
IndexReadyAlways == TRUE

\* GetBlockIDByHeight, first test: the index is used only once it is repaired
IndexReady == IsRepaired

\* what GetBlockIDByHeight(h) returns and whether it read the index state
QueryResult(h) ==
    IF ~IndexReady
    THEN [id |-> EmptyID, err |-> "errIndexIncomplete", consulted |-> FALSE]
    ELSE IF vmKind = "proposervm" /\ db.fork = NoFork
    THEN [id |-> EmptyID, err |-> "ErrNotFound", consulted |-> TRUE]
    ELSE IF vmKind = "proposervm" /\ h < db.fork
    THEN [id |-> EmptyID, err |-> "innerVM", consulted |-> TRUE]
    ELSE [id |-> GetBlockIDAtHeight(h),
          err |-> IF GetBlockIDAtHeight(h) # EmptyID THEN "nil" ELSE "ErrNotFound",
          consulted |-> TRUE]

\* VM.GetBlockIDByHeight(h), of either VM
GetBlockIDByHeight(h) ==
    /\ lastQuery' = [height |-> h, repaired |-> jobDone,
                     id |-> QueryResult(h).id, err |-> QueryResult(h).err,
                     consulted |-> QueryResult(h).consulted]
    /\ blkHeightsCache' = IF QueryResult(h).err = "nil" THEN CacheAfterGet(h)
                                                        ELSE blkHeightsCache
    /\ UNCHANGED <<mqVars, poolVars, ixVars>>
    /\ UNCHANGED <<lastAccepted, db, jobDone, batch, commitMaxSize, repPc,
                   needRepair, startBlkID, currentBlkID, assertLogged, resumed,
                   origin, originEmpty, runs, vmKind, crashes, entryModel>>

\* the process stops and a new one starts: only the store survives
Crash ==
    /\ crashes < MaxCrashes
    /\ crashes' = crashes + 1
    /\ blkHeightsCache' = [h \in Heights |-> EmptyID]
    /\ jobDone' = FALSE
    /\ batch' = <<>>
    /\ repPc' = "idle"
    /\ needRepair' = FALSE
    /\ startBlkID' = EmptyID
    /\ currentBlkID' = EmptyID
    /\ assertLogged' = FALSE
    /\ runs' = 0
    /\ lastQuery' = NoQuery
    /\ UNCHANGED <<mqVars, poolVars, ixVars>>
    /\ UNCHANGED <<lastAccepted, db, commitMaxSize, resumed, origin, originEmpty,
                   vmKind, entryModel>>

\* calls of the index API made from several goroutines
IndexCalls == 1..NumCalls

\* no call of the index API is in progress or was made
IxStart(h) ==
    /\ ixHeight = h
    /\ ixPc = [c \in IndexCalls |-> "idle"]
    /\ ixID = [c \in IndexCalls |-> EmptyID]

IxParked == IxStart(0)

\* a node whose height index has never been built, last accepted block at
\* height last, with commit threshold size and stored fork height fork
RepStart(vm, last, size, fork) ==
    /\ vmKind = vm
    /\ lastQuery = NoQuery
    /\ entryModel = [h \in Heights |-> EmptyID]
    /\ lastAccepted = last
    /\ db = [entry |-> [h \in Heights |-> EmptyID], checkpoint |-> EmptyID,
             fork |-> fork]
    /\ blkHeightsCache = [h \in Heights |-> EmptyID]
    /\ jobDone = FALSE
    /\ batch = <<>>
    /\ commitMaxSize = size
    /\ repPc = "idle"
    /\ needRepair = FALSE
    /\ startBlkID = EmptyID
    /\ currentBlkID = EmptyID
    /\ assertLogged = FALSE
    /\ resumed = FALSE
    /\ origin = 0
    /\ originEmpty = FALSE
    /\ runs = 0
    /\ crashes = 0

\* the fork height is kept by the proposer VM only
ForkChoices(vm) == IF vm = "proposervm" THEN {NoFork, ForkUnset} ELSE {NoFork}

InitRepair ==
    \E vm \in {"proposervm", "platformvm"} : \E last \in Heights :
        \E size \in CommitSizes : \E fork \in ForkChoices(vm) :
            RepStart(vm, last, size, fork) /\ IxParked

NextRepair ==
    \/ RepairHeightIndex
    \/ shouldRepair
    \/ shouldRepairProbe
    \/ RepairWrite
    \/ doRepair
    \/ RepairFinalWrite
    \/ updateHeightIndex
    \/ \E h \in Heights : GetBlockIDByHeight(h)
    \/ Crash

\* ------------------------------------------------------------------
\* Height index on its own: calls of the index API, one at a time
\* ------------------------------------------------------------------
\* heights and IDs the calls are made with
IndexHeights == 0..MaxIndexHeight
BlockIDs == 1..NumIDs

\* blkHeightsCache.Put(key, blkID)
CachePut(c, h, id) == [c EXCEPT ![h] = id]

\* a delete that leaves the cached value in place
CacheEvictNone(c, h) == c

\* blkHeightsCache.Evict(key)
CacheEvict(c, h) == [c EXCEPT ![h] = EmptyID]

\* index.SetBlockIDAtHeight: cache Put, then db.Put
SetBlockIDAtHeight(h, id) ==
    /\ blkHeightsCache' = CachePut(blkHeightsCache, h, id)
    /\ db' = [db EXCEPT !.entry[h] = id]
    /\ entryModel' = [entryModel EXCEPT ![h] = id]
    /\ UNCHANGED <<mqVars, poolVars, ixVars>>
    /\ UNCHANGED <<lastAccepted, jobDone, batch, commitMaxSize, repPc,
                   needRepair, startBlkID, currentBlkID, assertLogged, resumed,
                   origin, originEmpty, runs, vmKind, lastQuery, crashes>>

\* index.DeleteBlockIDAtHeight: cache Evict, then db.Delete
DeleteBlockIDAtHeight(h) ==
    /\ blkHeightsCache' = CacheEvict(blkHeightsCache, h)
    /\ db' = [db EXCEPT !.entry[h] = EmptyID]
    /\ entryModel' = [entryModel EXCEPT ![h] = EmptyID]
    /\ UNCHANGED <<mqVars, poolVars, ixVars>>
    /\ UNCHANGED <<lastAccepted, jobDone, batch, commitMaxSize, repPc,
                   needRepair, startBlkID, currentBlkID, assertLogged, resumed,
                   origin, originEmpty, runs, vmKind, lastQuery, crashes>>

\* index.ClearCache: blkHeightsCache.Flush()
ClearCache ==
    /\ blkHeightsCache' = [h \in Heights |-> EmptyID]
    /\ UNCHANGED <<mqVars, poolVars, ixVars>>
    /\ UNCHANGED <<lastAccepted, db, jobDone, batch, commitMaxSize, repPc,
                   needRepair, startBlkID, currentBlkID, assertLogged, resumed,
                   origin, originEmpty, runs, vmKind, lastQuery, entryModel,
                   crashes>>

\* index.GetBlockIDAtHeight called: a value found in the store is cached
IndexGet(h) ==
    /\ blkHeightsCache' = CacheAfterGet(h)
    /\ lastQuery' = [height |-> h, repaired |-> jobDone,
                     id |-> GetBlockIDAtHeight(h),
                     err |-> IF GetBlockIDAtHeight(h) # EmptyID THEN "nil"
                                                               ELSE "ErrNotFound",
                     consulted |-> TRUE]
    /\ UNCHANGED <<mqVars, poolVars, ixVars>>
    /\ UNCHANGED <<lastAccepted, db, jobDone, batch, commitMaxSize, repPc,
                   needRepair, startBlkID, currentBlkID, assertLogged, resumed,
                   origin, originEmpty, runs, vmKind, entryModel, crashes>>

NextIndex ==
    \/ \E h \in IndexHeights, id \in BlockIDs : SetBlockIDAtHeight(h, id)
    \/ \E h \in IndexHeights : DeleteBlockIDAtHeight(h)
    \/ ClearCache
    \/ \E h \in IndexHeights : IndexGet(h)

\* the other subsystems, not running
PoolParked == PoolStart("dispatch")

RepParked == RepStart("proposervm", 0, defaultCommitSizeCap, NoFork) /\ IxParked

MQParked ==
    /\ variant = "throttled"
    /\ queue = <<>>
    /\ closed = FALSE
    /\ closing = FALSE
    /\ pushPc = [m \in Msgs |-> "idle"]
    /\ ctxDone = [m \in Msgs |-> FALSE]
    /\ popPc = [c \in Consumers |-> "idle"]
    /\ popAfterClose = [c \in Consumers |-> FALSE]
    /\ closePc = [k \in Closers |-> "idle"]
    /\ acquired = [m \in Msgs |-> 0]
    /\ released = [m \in Msgs |-> 0]
    /\ sendFailed = [m \in Msgs |-> 0]
    /\ delivered = [m \in Msgs |-> 0]
    /\ popped = <<>>
    /\ before = [m \in Msgs |-> {}]
    /\ lateDelivery = FALSE
    /\ lateNil = FALSE
    /\ popWaiting = [c \in Consumers |-> FALSE]
    /\ blockedAtClose = {}
    /\ wokenWithMsg = FALSE
    /\ wokenWithNil = {}

\* a queue of either variant on its own
InitQueueOnly == InitMQ /\ PoolParked /\ RepParked

SpecMQ == InitQueueOnly /\ [][NextMQ]_vars

\* scheduled steps of a Pop call, of a Push call past its entry, of a Close call
ConsumerStep(c) ==
    \/ TQPopWait(c)
    \/ TQPopTake(c)
    \/ TQPopClosed(c)
    \/ BQPopRecv(c)
    \/ BQPopClosing(c)

PushStep(m) ==
    \/ TQPushLocked(m)
    \/ BQPushCheckClosing(m)
    \/ BQPushSend(m)
    \/ BQPushCancelled(m)
    \/ BQPushClosing(m)

CloseStep(k) == BQCloseDrain(k)

\* The Go scheduler runs every goroutine that can take a step; callers need
\* not call Push, Pop or Close, nor cancel a context.
FairSpecMQ ==
    /\ SpecMQ
    /\ \A c \in Consumers : WF_vars(ConsumerStep(c))
    /\ \A m \in Msgs : WF_vars(PushStep(m))
    /\ \A k \in Closers : WF_vars(CloseStep(k))

\* ------------------------------------------------------------------
\* Message queues: properties
\* ------------------------------------------------------------------
\* every Push, Pop and Close call that was made has returned
MQQuiescent ==
    /\ CloseReturned
    /\ ~PushInProgress
    /\ \A k \in Closers : closePc[k] # "once"
    /\ \A c \in Consumers : popPc[c] = "idle"

\* C1: throttled queue quota symmetry. No message is ever released more often
\* than it was acquired, and once Close has returned and no Push is in
\* progress every acquired message has been released exactly once.
QuotaSymmetry ==
    variant = "throttled" =>
        /\ \A m \in Msgs : released[m] <= acquired[m]
        /\ (CloseReturned /\ ~PushInProgress) =>
               \A m \in Msgs : released[m] = acquired[m]

\* C1 witness: after Close, one acquired message was released by a Pop and
\* another one by Close or by the closed branch of Push.
QuotaSymmetryWitness ==
    /\ variant = "throttled"
    /\ CloseReturned /\ ~PushInProgress
    /\ \E m \in Msgs : acquired[m] = 1 /\ delivered[m] = 1
    /\ \E m \in Msgs : acquired[m] = 1 /\ sendFailed[m] = 1

\* C2: at-most-once delivery, both variants. No message is returned to a
\* consumer twice, and no consumer call begun after Close returned has
\* returned a message.
AtMostOnce ==
    /\ \A m \in Msgs : delivered[m] <= 1
    /\ ~lateDelivery

\* C2 witness: a message was delivered, and a consumer call begun after Close
\* returned has come back with (nil, false).
AtMostOnceWitness ==
    /\ \E m \in Msgs : delivered[m] = 1
    /\ lateNil

DropAccounting ==
    /\ \A m \in Msgs : delivered[m] + sendFailed[m] <= 1
    /\ MQQuiescent =>
           \A m \in Msgs : pushPc[m] # "idle" => delivered[m] + sendFailed[m] = 1

\* C8 witness: on a closed, quiet blocking queue one message was delivered
\* and another, whose Push had returned true, was counted by Close.
DropAccountingWitness ==
    /\ variant = "blocking"
    /\ MQQuiescent
    /\ \E m \in Msgs : delivered[m] = 1
    /\ \E m \in Msgs : pushPc[m] = "true" /\ sendFailed[m] = 1

\* ------------------------------------------------------------------
\* Thread pools: specifications
\* ------------------------------------------------------------------
\* a pool of either prototype on its own
InitPoolOnly == MQParked /\ InitPool /\ RepParked

SpecPool == InitPoolOnly /\ [][NextPool]_vars

\* The Go scheduler runs every goroutine that can take a step, and request
\* closures return; callers need not submit or close.
FairSpecPool ==
    /\ SpecPool
    /\ \A r \in Reqs : WF_vars(WorkerStep(r))
    /\ WF_vars(DispatcherStep)

\* ------------------------------------------------------------------
\* Thread pools: properties
\* ------------------------------------------------------------------
\* a CloseCh call has begun
PoolClosing == \E k \in PoolClosers : poolClosePc[k] # "idle"

\* C4: worker pool cap. In every reachable state of a pool of size PoolSize
\* the number of request closures executing concurrently is at most PoolSize.
WorkerPoolCap == Cardinality(Running) <= PoolSize

\* C9: every request handed to the dispatcher of the pool is executed exactly
\* once and completes: from the moment receiveMessages has taken request r,
\* eventually r's closure has been invoked once and has returned (unless the
\* pool is being closed).
HandedRequestCompletes ==
    \A r \in Reqs :
        (poolVariant = "dispatch" /\ reqPc[r] = "handed")
            ~> ((executed[r] = 1 /\ r \in ClosureReturned) \/ PoolClosing)

\* C10: no deadlock when capacity frees up. If request q waits in sendMessage
\* for a free worker and worker r has finished its closure, then eventually
\* r's exit has completed (releaseWorker returned) and q's closure has started.
ReleaseUnblocksWaiter ==
    \A r \in Reqs : \A q \in Reqs :
        (poolVariant = "dispatch" /\ dispPc = "wait" /\ dispReq = q
            /\ reqPc[r] = "release")
            ~> (reqPc[r] = "done" /\ executed[q] = 1)

\* ------------------------------------------------------------------
\* Height index and repairer: specification
\* ------------------------------------------------------------------
InitRepairOnly == MQParked /\ PoolParked /\ InitRepair

SpecRepair == InitRepairOnly /\ [][NextRepair]_vars

\* ------------------------------------------------------------------
\* Height index and repairer: properties
\* ------------------------------------------------------------------
\* entry(h) names the accepted block at height h, for every h up to top
IndexedUpTo(top) == \A h \in 0..top : db.entry[h] = BlockIDAt(h)

\* C5: repair completeness. After RepairHeightIndex has returned from a walk
\* begun at the last accepted block L of a chain none of whose blocks was
\* indexed, GetBlockIDAtHeight(h) is the accepted block at h for every h in
\* 0..height(L), the checkpoint is absent and IsRepaired() is true.
RepairCompleteness ==
    (repPc = "returned" /\ needRepair /\ ~resumed /\ originEmpty) =>
        /\ \A h \in 0..origin : GetBlockIDAtHeight(h) = BlockIDAt(h)
        /\ IndexedUpTo(origin)
        /\ GetCheckpoint = EmptyID
        /\ jobDone

RepairCompletenessWitness ==
    /\ repPc = "returned" /\ needRepair /\ ~resumed /\ originEmpty
    /\ origin = MaxHeight - 1
    /\ commitMaxSize = MidCommitSize
    /\ IndexedUpTo(origin)

\* C6: repair resumption. When a run restarted from a durable checkpoint
\* after a crash has finished (it returned, or it stopped advancing at an
\* entry already present), the durable entries for heights 0..height(L) are
\* those an uninterrupted run on the same chain writes: the accepted block at
\* every height, L being the block the interrupted walk began at.
RepairResumption ==
    (resumed /\ originEmpty /\ (repPc = "returned" \/ assertLogged)) =>
        IndexedUpTo(origin)

RepairResumptionWitness ==
    /\ resumed /\ originEmpty /\ repPc = "returned"
    /\ crashes > 0
    /\ origin >= 2
    /\ Height(startBlkID) \in 1..(origin - 1)
    /\ IndexedUpTo(origin)

\* C7: repair idempotence. A RepairHeightIndex call that finds no checkpoint
\* and the last accepted block indexed stages nothing, sets jobDone, writes
\* nothing to the store (entries, checkpoint and fork height keep their
\* values) and returns; this holds for every such call, also a repeated one.
RepairIdempotence ==
    [][/\ (repPc = "probe" /\ repPc' = "write"
              /\ GetBlockIDAtHeight(lastAccepted) # EmptyID)
          => (jobDone' /\ ~needRepair' /\ batch' = batch /\ db' = db)
       /\ (repPc = "write" /\ repPc' # "write" /\ crashes' = crashes
              /\ ~needRepair)
          => (repPc' = "returned" /\ db' = db /\ jobDone')]_vars

RepairIdempotenceWitness ==
    /\ repPc = "returned" /\ ~needRepair /\ jobDone
    /\ runs = MaxRuns
    /\ crashes = 0
    /\ batch # <<>>
    /\ IndexedUpTo(lastAccepted)

\* ------------------------------------------------------------------
\* Message queues: further properties
\* ------------------------------------------------------------------
\* C11 (as stated): every Pop that is blocked on an empty queue when Close is
\* called eventually returns, and what it returns is (nil, false).
CloseUnblocksWithNil ==
    /\ \A c \in Consumers : (c \in blockedAtClose) ~> (c \notin blockedAtClose)
    /\ [](~wokenWithMsg)

\* C11 (amended): every Pop that is blocked on an empty queue when Close is
\* called eventually returns; it returns (nil, false) in the throttled queue,
\* and in the blocking queue either (nil, false) or a message that a Push
\* already past its closing check enqueued after closing was triggered.
CloseUnblocksPops ==
    /\ \A c \in Consumers : (c \in blockedAtClose) ~> (c \notin blockedAtClose)
    /\ [](wokenWithMsg => variant = "blocking")

CloseUnblocksPopsWitness ==
    /\ wokenWithNil = Consumers
    /\ blockedAtClose = {}
    /\ variant = "throttled"

\* a Close call has already taken effect
AlreadyClosed == closed \/ (\E k \in Closers : closePc[k] = "done")

\* C12: Close is idempotent, both variants. A Close call made after a Close
\* has taken effect (a second or a concurrent one) returns and changes
\* nothing: no Release, no SendFailed, the queue was empty and stays empty,
\* closed / closing keep their values.
CloseIdempotent ==
    [][\A k \in Closers :
          (AlreadyClosed /\ closePc[k] = "idle" /\ closePc'[k] = "done")
              => /\ released' = released
                 /\ sendFailed' = sendFailed
                 /\ acquired' = acquired
                 /\ queue = <<>> /\ queue' = <<>>
                 /\ closed' = closed /\ closing' = closing
                 /\ (closed \/ closing)]_vars

CloseIdempotentWitness ==
    /\ \A k \in Closers : closePc[k] = "done"
    /\ \E m \in Msgs : pushPc[m] = "true" /\ sendFailed[m] = 1

\* C13: cancellation on the blocking queue. A Push whose context is already
\* cancelled when it leaves its select returns false, leaves the queue as it
\* was and counts SendFailed once for its message, whether or not the
\* channel has free capacity.
PushHonoursCancel ==
    [][\A m \in Msgs :
          (variant = "blocking" /\ ctxDone[m] /\ pushPc[m] = "select"
              /\ pushPc'[m] # "select")
              => /\ pushPc'[m] = "false"
                 /\ queue' = queue
                 /\ sendFailed'[m] = sendFailed[m] + 1]_vars

\* ------------------------------------------------------------------
\* Height index and repairer: further properties
\* ------------------------------------------------------------------
\* C14: height queries before the repair is done fail. A GetBlockIDByHeight
\* call made while IsRepaired() is false returns errIndexIncomplete with the
\* empty ID and does not read the index, for every height and both VMs.
QueryNeedsRepairedIndex ==
    (lastQuery.err # "none" /\ ~lastQuery.repaired) =>
        /\ lastQuery.err = "errIndexIncomplete"
        /\ lastQuery.id = EmptyID
        /\ ~lastQuery.consulted

QueryNeedsRepairedIndexWitness ==
    /\ lastQuery.err = "errIndexIncomplete"
    /\ ~lastQuery.repaired
    /\ db.entry[lastQuery.height] # EmptyID

\* ------------------------------------------------------------------
\* Height index on its own: specification and properties
\* ------------------------------------------------------------------
InitIndexOnly == MQParked /\ PoolParked /\ RepParked

SpecIndex == InitIndexOnly /\ [][NextIndex]_vars

\* C15: Get reflects the latest write. After any sequential history of
\* SetBlockIDAtHeight, DeleteBlockIDAtHeight, ClearCache and
\* GetBlockIDAtHeight calls, GetBlockIDAtHeight(h) returns for every h the ID
\* of the last Set(h, id) not followed by Delete(h), and NotFound if there is
\* none, whatever the cache holds; the last Get call returned exactly that.
GetReflectsLatestWrite ==
    /\ [](\A h \in Heights : GetBlockIDAtHeight(h) = entryModel[h])
    /\ [][lastQuery' # lastQuery =>
             /\ lastQuery'.id = entryModel[lastQuery'.height]
             /\ lastQuery'.err = (IF lastQuery'.id = EmptyID THEN "ErrNotFound"
                                                             ELSE "nil")]_vars

GetReflectsLatestWriteWitness ==
    /\ lastQuery.err = "ErrNotFound"
    /\ \E h \in IndexHeights :
          /\ entryModel[h] = NumIDs
          /\ blkHeightsCache[h] = EmptyID
    /\ \E h \in IndexHeights : blkHeightsCache[h] # EmptyID

\* C16: index-complete invariant. In every reachable durable state, if the
\* checkpoint is absent and entry(lastAccepted.height) is present, then
\* entry(h) is present for every h in 0..lastAccepted.height.
IndexCompleteInvariant ==
    (GetCheckpoint = EmptyID /\ db.entry[lastAccepted] # EmptyID) =>
        \A h \in 0..lastAccepted : db.entry[h] # EmptyID

\* a CloseCh call has been received: the pool is closed
PoolClosed == \E k \in PoolClosers : poolClosePc[k] = "done"

\* requests admitted to a worker whose exit step has not completed
InFlight == {r \in Reqs : reqPc[r] \in {"increment", "incremented", "run",
                                        "release", "decrement"}}

\* C17: worker pool Close. Once Close has been received while requests are in
\* flight, no new request is admitted, every in-flight request runs to
\* completion, and no worker's exit step fails on the closed signal channel.
PoolCloseDrains ==
    /\ [][PoolClosed => \A r \in Reqs : reqPc[r] = "new" => reqPc'[r] = "new"]_vars
    /\ \A r \in Reqs : (PoolClosed /\ r \in InFlight) ~> (reqPc[r] = "done")
    /\ [](~poolPanic)

\* C18: after a repair has run to completion and its final batch is written,
\* whether it started from the last accepted block or resumed from a
\* checkpoint, the next shouldRepair probe on the same indexer returns
\* needRepair = false and IsRepaired() is true.
ProbeAfterRepair ==
    [][(repPc \in {"shouldRepair", "probe"} /\ runs >= 1 /\ needRepair
            /\ repPc' = "write")
          => (~needRepair' /\ IsRepaired')]_vars

\* C19: throttled queue, closed state. Whenever closed is true the queue holds
\* no messages, and every message whose quota is acquired and not released
\* belongs to a Push call that has not returned yet.
ClosedQueueEmpty ==
    (variant = "throttled" /\ closed) =>
        /\ queue = <<>>
        /\ \A m \in Msgs : released[m] < acquired[m] => pushPc[m] = "acquired"

\* C19 witness: the queue is closed; one Push found it closed and gave its
\* quota back, another Push holds quota and has not yet taken the lock.
ClosedQueueEmptyWitness ==
    /\ variant = "throttled" /\ closed
    /\ \E m \in Msgs : pushPc[m] = "false" /\ acquired[m] = 1 /\ released[m] = 1
    /\ \E m \in Msgs : pushPc[m] = "acquired" /\ released[m] < acquired[m]

\* tasks that have incremented the counter and not yet decremented it
Counted == {r \in Reqs : reqPc[r] \in {"run", "release", "decrement"}}

\* C20: worker pool counter pairing. Every admitted task increments the
\* active counter once and decrements it once on exit, so in every reachable
\* state the counter equals the number of tasks between their increment and
\* their decrement (and is 0 when no task is in flight).
CounterPairing == activeWorkers = Cardinality(Counted)

\* C21: entry correctness. Every durable entry(h) = id, written by the repair
\* walker or by updateHeightIndex, names the accepted block whose height is
\* h, and no step replaces a durable entry with the ID of a different block.
EntryCorrectness ==
    /\ [](\A h \in Heights :
            db.entry[h] # EmptyID =>
                (db.entry[h] = BlockIDAt(h) /\ GetBlkFound(db.entry[h])))
    /\ [][\A h \in Heights :
            db.entry[h] # EmptyID => db'.entry[h] = db.entry[h]]_vars

\* C21 witness: a proposervm index holding the genesis entry, which only the
\* walker writes, and an entry above the height the repair started from,
\* which only the live path writes.
EntryCorrectnessWitness ==
    /\ vmKind = "proposervm"
    /\ db.entry[0] # EmptyID
    /\ lastAccepted > origin
    /\ db.entry[lastAccepted] # EmptyID

\* C22: blocking queue, Close against concurrent Push. Once Close has
\* returned the buffered channel is empty and stays empty; a message of a
\* Push that raced with Close was either taken out of the channel and counted
\* SendFailed once (or consumed by a Pop before the drain), or dropped and
\* counted once by the Push itself; no Push is left at its sending select.
CloseLeavesBufferEmpty ==
    (variant = "blocking" /\ CloseReturned) =>
        /\ queue = <<>>
        /\ \A m \in Msgs :
              /\ pushPc[m] = "true" => delivered[m] + sendFailed[m] = 1
              /\ pushPc[m] = "false" => (delivered[m] = 0 /\ sendFailed[m] = 1)
              /\ pushPc[m] # "select"

\* C22 witness: Close has returned; it drained one message and another Push
\* dropped its message itself.
CloseLeavesBufferEmptyWitness ==
    /\ variant = "blocking" /\ CloseReturned
    /\ \E m \in Msgs : pushPc[m] = "true" /\ sendFailed[m] = 1
    /\ \E m \in Msgs : pushPc[m] = "false" /\ sendFailed[m] = 1

\* C23: blocking queue, Push blocked on a full channel. While the channel is
\* full and the queue is not closing, a Push whose context is cancelled
\* eventually leaves its select, and the step by which it does so returns
\* false, counts SendFailed exactly once and leaves the buffered messages
\* unchanged.
BlockedPushCancelled ==
    /\ \A m \in Msgs :
          (variant = "blocking" /\ pushPc[m] = "select" /\ ctxDone[m])
              ~> (pushPc[m] # "select")
    /\ [][\A m \in Msgs :
            (variant = "blocking" /\ pushPc[m] = "select" /\ ctxDone[m]
                /\ Len(queue) = BufferSize /\ ~closing /\ pushPc'[m] # "select")
              => /\ pushPc'[m] = "false"
                 /\ sendFailed'[m] = sendFailed[m] + 1
                 /\ queue' = queue]_vars

\* C23 witness: a cancelled Push has returned false, counted once, while a
\* message accepted before that Push began is still the whole buffer and the
\* queue is not closing.
BlockedPushCancelledWitness ==
    /\ variant = "blocking" /\ ~closing
    /\ \E m \in Msgs :
          /\ pushPc[m] = "false" /\ ctxDone[m] /\ sendFailed[m] = 1
          /\ \E n \in before[m] : delivered[n] = 0 /\ queue = <<n>>

\* C24: Pop returns (nil, false) only after Close, both variants. Every step
\* by which a blocking Pop returns without a message is taken with the queue
\* closed (throttled) or closing (blocking); an open queue keeps the Pop
\* waiting, whatever wake-ups occur.
PopNilOnlyAfterClose ==
    [][\A c \in Consumers :
          (popPc[c] = "pop" /\ popPc'[c] = "idle" /\ delivered' = delivered)
              => (closed \/ closing)]_vars

\* C24 witness: a Pop that was parked on the empty queue has returned
\* (nil, false) after Close, and a message was consumed by a Pop as well.
PopNilOnlyAfterCloseWitness ==
    /\ \E c \in wokenWithNil : popPc[c] = "idle"
    /\ closed \/ closing
    /\ \E m \in Msgs : delivered[m] = 1

\* C25: throttled Push refused by the throttler. The step by which such a
\* Push returns false counts SendFailed once and leaves the queue, the closed
\* flag, the parked waiters and the acquired and released quota unchanged.
RefusedPushFrame ==
    [][\A m \in Msgs :
          (variant = "throttled" /\ pushPc[m] = "idle" /\ pushPc'[m] = "false")
              => /\ sendFailed' = [sendFailed EXCEPT ![m] = @ + 1]
                 /\ queue' = queue
                 /\ closed' = closed
                 /\ popWaiting' = popWaiting
                 /\ released' = released
                 /\ acquired' = acquired]_vars

\* C25 witness: a Push was refused (nothing acquired, counted once, nothing
\* released) while the queue is open and a Pop stays parked.
RefusedPushFrameWitness ==
    /\ variant = "throttled" /\ ~closed
    /\ \E m \in Msgs :
          pushPc[m] = "false" /\ acquired[m] = 0 /\ sendFailed[m] = 1
              /\ released[m] = 0
    /\ \E c \in Consumers : popWaiting[c]

\* C26: crash-consistent prefix. In every durable state, if a checkpoint for
\* block c is present then entry(h) is durable for every h above height(c)
\* up to the height of the block the repair started from.
CrashConsistentPrefix ==
    GetCheckpoint # EmptyID =>
        \A h \in Heights :
            (Height(GetCheckpoint) < h /\ h <= origin) => db.entry[h] # EmptyID

\* C26 witness: the process stopped with a checkpoint at least two blocks
\* below the block the repair started from.
CrashConsistentPrefixWitness ==
    /\ crashes >= 1 /\ repPc = "idle"
    /\ GetCheckpoint # EmptyID
    /\ Height(GetCheckpoint) + 2 <= origin

\* C27: live update writes. A proposervm updateHeightIndex(height, blkID)
\* makes entry(height) = blkID durable in that step exactly when a checkpoint
\* exists and blkID is not the checkpoint block, or no checkpoint exists and
\* IsRepaired() is true.
LiveUpdateWrites ==
    [][(vmKind = "proposervm" /\ lastAccepted' = lastAccepted + 1)
          => ((db'.entry[lastAccepted'] = BlockIDAt(lastAccepted'))
                <=> (IF GetCheckpoint # EmptyID
                     THEN BlockIDAt(lastAccepted') # GetCheckpoint
                     ELSE IsRepaired))]_vars

\* C28: live update no-op. An updateHeightIndex call made when no checkpoint
\* exists and repair is not complete, or for the checkpoint block itself,
\* leaves every entry, the fork height and the checkpoint unchanged.
LiveUpdateNoOp ==
    [][(lastAccepted' = lastAccepted + 1
            /\ ((GetCheckpoint = EmptyID /\ ~IsRepaired)
                    \/ BlockIDAt(lastAccepted') = GetCheckpoint))
          => db' = db]_vars

\* the repair walk is under way
RepairRunning == repPc \in {"doRepair", "finalWrite"}

\* C29: concurrent tip advancement. A block accepted while a repair runs
\* with its checkpoint committed is indexed in the step that accepts it, no
\* step of the running repair changes an entry that is durable, and when the
\* repair has returned every height from 0 to its start height is indexed.
TipAdvancement ==
    /\ [][(lastAccepted' = lastAccepted + 1 /\ RepairRunning
                /\ GetCheckpoint # EmptyID)
             => db'.entry[lastAccepted'] = BlockIDAt(lastAccepted')]_vars
    /\ [][RepairRunning =>
             \A h \in Heights :
                 db.entry[h] # EmptyID => db'.entry[h] = db.entry[h]]_vars
    /\ []((repPc = "returned" /\ needRepair) => IndexedUpTo(origin))

\* scheduled steps of the goroutine that runs RepairHeightIndex
RepairStep ==
    \/ shouldRepair
    \/ shouldRepairProbe
    \/ RepairWrite
    \/ doRepair
    \/ RepairFinalWrite

\* the repairer runs whenever it can take a step; nothing else is required
FairSpecRepair == SpecRepair /\ WF_vars(RepairStep)

\* the walker's cursor is at a block whose height is already indexed
AtIndexedBlock ==
    /\ repPc = "doRepair"
    /\ GetBlkFound(currentBlkID)
    /\ GetBlockIDAtHeight(Height(currentBlkID)) # EmptyID

\* C30: walk guard. When the walker finds entry(height) of the block at its
\* cursor already present, the step that logs it leaves the walk, and the
\* run returns to its caller (unless the process stops first).
WalkGuardStops ==
    /\ [][(~assertLogged /\ assertLogged') => repPc' # "doRepair"]_vars
    /\ AtIndexedBlock ~> (repPc \in {"returned", "idle"})

\* C31: repair terminates in Done. A repair run that has entered its walk,
\* fresh or resumed from a checkpoint after a crash, eventually returns with
\* done = true and the checkpoint deleted from the store (unless the process
\* stops first).
RepairTerminates ==
    (repPc = "doRepair")
        ~> ((repPc = "returned" /\ jobDone /\ GetCheckpoint = EmptyID)
                \/ repPc = "idle")

\* ------------------------------------------------------------------
\* Height index and repairer with I/O errors
\* ------------------------------------------------------------------
\* a repairer that writes what it has staged before it returns an error
ErrorCommitForce(d, b) == BatchWrite(d, b)

\* RepairHeightIndex and doRepair on an error: `return err`, nothing written
ErrorCommit(d, b) == d

\* what the batch holds when the call at `at` fails: a read fails before
\* anything is staged; doCheckpoint fails after the entry was staged;
\* batch.Write fails after the checkpoint was staged as well
StagedAtError(at) ==
    IF at = "read" THEN batch
    ELSE IF at = "checkpoint" THEN Append(batch, RebuildEntry(currentBlkID))
    ELSE doCheckpoint(Append(batch, RebuildEntry(currentBlkID)), currentBlkID)

\* the block server or the store returns an error other than NotFound:
\* shouldRepair, doRepair and RepairHeightIndex return it at once
RepairError(at) ==
    /\ repPc \in {"shouldRepair", "probe", "write", "doRepair", "finalWrite"}
    /\ at # "read" =>
          /\ repPc = "doRepair"
          /\ GetBlkFound(currentBlkID)
          /\ GetBlockIDAtHeight(Height(currentBlkID)) = EmptyID
          /\ BatchSize(Append(batch, RebuildEntry(currentBlkID))) > commitMaxSize
    /\ batch' = StagedAtError(at)
    /\ db' = ErrorCommit(db, batch')
    /\ repPc' = "failed"
    /\ runs' = runs + 1
    /\ UNCHANGED <<mqVars, poolVars, ixVars>>
    /\ UNCHANGED <<lastAccepted, blkHeightsCache, jobDone, commitMaxSize,
                   needRepair, startBlkID, currentBlkID, assertLogged, resumed,
                   origin, originEmpty, crashes, vmKind, lastQuery, entryModel>>

\* the repairer and the accept path with failing calls; no process restarts,
\* a failed run is followed by the next call of RepairHeightIndex
NextRepairErr ==
    \/ RepairHeightIndex
    \/ shouldRepair
    \/ shouldRepairProbe
    \/ RepairWrite
    \/ doRepair
    \/ RepairFinalWrite
    \/ updateHeightIndex
    \/ \E at \in {"read", "checkpoint", "write"} : RepairError(at)

SpecRepairErr == InitRepairOnly /\ [][NextRepairErr]_vars

\* C32: repair error handling. When the block server or the store returns an
\* error other than NotFound during the probe or the walk, the run returns
\* at once: the store is left as the last commit wrote it and the done flag
\* is not changed (it stays false if it was false).
ErrorLeavesStore ==
    [][(repPc \in {"shouldRepair", "probe", "doRepair"} /\ repPc' = "failed")
          => (db' = db /\ jobDone' = jobDone)]_vars

\* C32 witness: a run has returned an error during the walk with an entry
\* staged in its batch that the store does not hold, done still false.
ErrorLeavesStoreWitness ==
    /\ repPc = "failed" /\ ~jobDone
    /\ \E i \in 1..Len(batch) :
          batch[i].key = "entry" /\ db.entry[batch[i].h] = EmptyID

WalkerWritesEntry ==
    /\ repPc \in {"write", "doRepair", "finalWrite"}
    /\ lastAccepted' = lastAccepted
    /\ crashes' = crashes
    /\ db'.entry # db.entry

\* C34: fresh probe. A probe that finds no checkpoint and the last accepted
\* block not indexed starts the walk at the last accepted block and stages
\* checkpoint = lastAcceptedBlkID; that checkpoint is durable before the walk
\* begins, so every step of the repairer that writes an entry finds a
\* checkpoint durable already, and a run stopped anywhere inside the walk
\* leaves a checkpoint for the restart.
FreshProbeCheckpoint ==
    /\ [][(repPc = "probe" /\ repPc' = "write"
              /\ GetBlockIDAtHeight(lastAccepted) = EmptyID)
            => /\ needRepair'
               /\ startBlkID' = BlockIDAt(lastAccepted)
               /\ batch' = Append(batch, PutCheckpoint(BlockIDAt(lastAccepted)))
               /\ db' = db]_vars
    /\ [][(repPc = "write" /\ repPc' = "doRepair" /\ ~resumed)
            => GetCheckpoint' = startBlkID]_vars
    /\ [][(WalkerWritesEntry /\ ~resumed) => GetCheckpoint # EmptyID]_vars
    /\ []((repPc \in {"doRepair", "finalWrite"} /\ needRepair /\ ~resumed)
            => GetCheckpoint # EmptyID)

\* C34 witness: a fresh run was stopped inside the walk after its first
\* commit of entries; the store holds a checkpoint for the restart.
FreshProbeCheckpointWitness ==
    /\ repPc = "idle" /\ crashes = 1 /\ runs = 0
    /\ ~resumed /\ originEmpty
    /\ origin >= 2
    /\ db.entry[origin] = BlockIDAt(origin)
    /\ db.entry[0] = EmptyID
    /\ GetCheckpoint # EmptyID

\* C35: worker exit step. releaseWorker always completes without blocking:
\* a worker whose closure has returned eventually finishes its exit; the exit
\* decrements active and adds one free-worker signal when the channel holds
\* fewer than PoolSize signals and none otherwise, so the channel never holds
\* more than PoolSize signals.
WorkerExitCompletes ==
    /\ \A r \in Reqs : (reqPc[r] = "release") ~> (reqPc[r] = "done")
    /\ [][\A r \in Reqs :
            (reqPc[r] = "decrement" /\ reqPc'[r] = "done")
                => /\ activeWorkers' = Max(activeWorkers - 1, 0)
                   /\ signalCh' = IF signalCh < PoolSize
                                  THEN signalCh + 1 ELSE signalCh]_vars
    /\ [](signalCh <= PoolSize)

\* C36: worker error path. A request whose closure returned an error is never
\* reported to the CPU tracker, and its worker still performs the exit step:
\* eventually releaseWorker has returned for it, having decremented active
\* and emitted the free-worker signal unless the channel was full.
ErrorPathExit ==
    /\ [](failed \cap utilized = {})
    /\ [][\A r \in Reqs :
            (r \in failed /\ reqPc[r] = "decrement" /\ reqPc'[r] = "done"
                /\ ~poolPanic')
                => /\ activeWorkers' = Max(activeWorkers - 1, 0)
                   /\ signalCh' = IF signalCh < PoolSize
                                  THEN signalCh + 1 ELSE signalCh]_vars
    /\ \A r \in Reqs :
          (r \in failed /\ reqPc[r] = "release") ~> (reqPc[r] = "done")

\* ------------------------------------------------------------------
\* Height index called from several goroutines
\* ------------------------------------------------------------------
\* index.Lock is declared and never taken: a writer in progress does not
\* keep other calls out
WriterExcludes(c) == FALSE

\* calls are numbered in the order they begin
NextIndexCall(c) == \A j \in IndexCalls : j < c => ixPc[j] # "idle"

\* a SetBlockIDAtHeight or DeleteBlockIDAtHeight call is between its steps
WriteInProgress ==
    \E c \in IndexCalls : ixPc[c] \in {"set", "dbPut", "delete", "dbDelete"}

\* a goroutine calls GetBlockIDAtHeight, SetBlockIDAtHeight(id) or
\* DeleteBlockIDAtHeight with the height ixHeight
IxCall(c, op, id) ==
    /\ ixPc[c] = "idle"
    /\ NextIndexCall(c)
    /\ op = "set" <=> id # EmptyID
    /\ ixPc' = [ixPc EXCEPT ![c] = op]
    /\ ixID' = [ixID EXCEPT ![c] = id]
    /\ UNCHANGED <<mqVars, poolVars>>
    /\ UNCHANGED <<lastAccepted, db, blkHeightsCache, jobDone, batch,
                   commitMaxSize, repPc, needRepair, startBlkID, currentBlkID,
                   assertLogged, resumed, origin, originEmpty, runs, vmKind,
                   lastQuery, entryModel, crashes, ixHeight>>

\* one step of call c that moves it to position pc holding id, leaving the
\* index with cache ch and store d
IxStep(c, pc, id, ch, d) ==
    /\ ~WriterExcludes(c)
    /\ ixPc' = [ixPc EXCEPT ![c] = pc]
    /\ ixID' = [ixID EXCEPT ![c] = id]
    /\ blkHeightsCache' = ch
    /\ db' = d
    /\ UNCHANGED <<mqVars, poolVars>>
    /\ UNCHANGED <<lastAccepted, jobDone, batch, commitMaxSize, repPc,
                   needRepair, startBlkID, currentBlkID, assertLogged, resumed,
                   origin, originEmpty, runs, vmKind, lastQuery, entryModel,
                   crashes, ixHeight>>

\* GetBlockIDAtHeight: blkHeightsCache.Get; a hit is returned
GetCacheLookup(c) ==
    /\ ixPc[c] = "get"
    /\ IF blkHeightsCache[ixHeight] # EmptyID
       THEN IxStep(c, "done", EmptyID, blkHeightsCache, db)
       ELSE IxStep(c, "dbGet", EmptyID, blkHeightsCache, db)

\* GetBlockIDAtHeight: hi.db.Get(key); NotFound is returned
GetDbGet(c) ==
    /\ ixPc[c] = "dbGet"
    /\ IF db.entry[ixHeight] # EmptyID
       THEN IxStep(c, "cachePut", db.entry[ixHeight], blkHeightsCache, db)
       ELSE IxStep(c, "done", EmptyID, blkHeightsCache, db)

\* GetBlockIDAtHeight: blkHeightsCache.Put(key, res), return res
GetCachePut(c) ==
    /\ ixPc[c] = "cachePut"
    /\ IxStep(c, "done", EmptyID,
              CachePut(blkHeightsCache, ixHeight, ixID[c]), db)

\* SetBlockIDAtHeight: blkHeightsCache.Put(key, blkID)
SetCachePut(c) ==
    /\ ixPc[c] = "set"
    /\ IxStep(c, "dbPut", ixID[c],
              CachePut(blkHeightsCache, ixHeight, ixID[c]), db)

\* SetBlockIDAtHeight: hi.db.Put(key, blkID[:])
SetDbPut(c) ==
    /\ ixPc[c] = "dbPut"
    /\ IxStep(c, "done", EmptyID, blkHeightsCache,
              [db EXCEPT !.entry[ixHeight] = ixID[c]])

\* DeleteBlockIDAtHeight: blkHeightsCache.Evict(key)
DeleteCacheEvict(c) ==
    /\ ixPc[c] = "delete"
    /\ IxStep(c, "dbDelete", EmptyID,
              CacheEvict(blkHeightsCache, ixHeight), db)

\* DeleteBlockIDAtHeight: hi.db.Delete(key)
DeleteDbDelete(c) ==
    /\ ixPc[c] = "dbDelete"
    /\ IxStep(c, "done", EmptyID, blkHeightsCache,
              [db EXCEPT !.entry[ixHeight] = EmptyID])

NextIndexConc ==
    \/ \E c \in IndexCalls : IxCall(c, "get", EmptyID)
    \/ \E c \in IndexCalls : \E id \in BlockIDs : IxCall(c, "set", id)
    \/ \E c \in IndexCalls : IxCall(c, "delete", EmptyID)
    \/ \E c \in IndexCalls : GetCacheLookup(c)
    \/ \E c \in IndexCalls : GetDbGet(c)
    \/ \E c \in IndexCalls : GetCachePut(c)
    \/ \E c \in IndexCalls : SetCachePut(c)
    \/ \E c \in IndexCalls : SetDbPut(c)
    \/ \E c \in IndexCalls : DeleteCacheEvict(c)
    \/ \E c \in IndexCalls : DeleteDbDelete(c)

InitIndexConc ==
    /\ MQParked /\ PoolParked
    /\ RepStart("proposervm", 0, defaultCommitSizeCap, NoFork)
    /\ \E h \in IndexHeights : IxStart(h)

SpecIndexConc == InitIndexConc /\ [][NextIndexConc]_vars

\* C37: cache coherence under concurrency. For every interleaving of
\* concurrent GetBlockIDAtHeight, SetBlockIDAtHeight and DeleteBlockIDAtHeight
\* calls on one height: whenever no write is in progress a cached ID for the
\* height equals the durable entry, and a Get that is answered from the cache
\* obtains the durable ID (never another ID, never a deleted one).
CacheCoherent ==
    /\ [](~WriteInProgress =>
            (blkHeightsCache[ixHeight] # EmptyID =>
                blkHeightsCache[ixHeight] = db.entry[ixHeight]))
    /\ [][\A c \in IndexCalls :
            (ixPc[c] = "get" /\ ixPc'[c] = "done")
                => blkHeightsCache[ixHeight] = db.entry[ixHeight]]_vars

\* C38: Close of the blocking queue is deadlock-free. A Close call that has
\* closed q.closing eventually returns, and every Push waiting at its select
\* when the queue is closing eventually returns, also when the channel is
\* full, no consumer runs and no context is cancelled: the read lock of a
\* blocked Push does not keep Close from the write lock forever.
CloseDeadlockFree ==
    /\ \A k \in Closers :
          (variant = "blocking" /\ closePc[k] = "once") ~> (closePc[k] = "done")
    /\ \A m \in Msgs :
          (variant = "blocking" /\ closing /\ pushPc[m] = "select")
              ~> (pushPc[m] \in {"true", "false"})
    /\ [](\A k \in Closers :
            (variant = "blocking" /\ closePc[k] = "done") =>
                \A m \in Msgs : pushPc[m] # "select")

\* C38 witness: Close has closed q.closing and waits for the write lock while
\* a Push with a live context, blocked on the full channel, holds the read
\* lock; no consumer has called Pop.
CloseDeadlockFreeWitness ==
    /\ variant = "blocking" /\ closing
    /\ \E k \in Closers : closePc[k] = "once"
    /\ Len(queue) = BufferSize
    /\ \E m \in Msgs : pushPc[m] = "select" /\ ~ctxDone[m]
    /\ \A m \in Msgs : ~ctxDone[m]
    /\ \A c \in Consumers : popPc[c] = "idle"
    /\ popped = <<>>

\* C39: done implies durably complete. In every state in which IsRepaired()
\* returns true the checkpoint is absent from the store and, when the flag
\* was set by a walk, entry(h) is durable for every h from 0 to the height
\* of the block that walk started from; so the flag is not true before the
\* final batch is committed, nor after that commit has failed.
DoneImpliesDurable ==
    IsRepaired =>
        /\ GetCheckpoint = EmptyID
        /\ needRepair => IndexedUpTo(Height(startBlkID))

\* C40: pool CloseCh always returns. In every state of the pool a CloseCh
\* call that has begun eventually completes, and once CloseCh was called on
\* the dispatcher pool the receiveMessages loop eventually exits.
CloseChReturns ==
    /\ \A k \in PoolClosers :
          (poolClosePc[k] = "sending") ~> (poolClosePc[k] = "done")
    /\ (poolVariant = "dispatch" /\ PoolClosing) ~> (dispPc = "exited")

====
